---- MODULE Spec2Model ----
(***************************************************************************)
(* File manager backend (Django / DRF): the FileUpload table, the content  *)
(* store, the cache and the request handlers of files/views.py,            *)
(* files/serializers.py, files/models.py, files/tasks.py, files/utils.py.  *)
(***************************************************************************)
EXTENDS Integers, Sequences, FiniteSets, TLC

\* ------------------------------------------------------------------ bounds
\* Number of rows the id sequence hands out.
MaxRecords == 2
\* Longest batch of a bulk upload or of a background task.
MaxBatch == 2
\* Number of blobs the content store holds.
MaxBlobs == 2
\* Requests and tasks in flight at once (the pool of workers).
MaxWorkers == 2
\* Highest value of a cache version key.
MaxVersion == 3
MaxLen == 3

Users == {1, 2}
\* Request slots of the single upload; the slot the main specification uses.
Reqs == {1, 2}
MainReqs == {1}
\* Task workers; the worker the specifications with one task use.
Tasks == {1, 2}
MainTasks == {1}

None == "none"

\* ------------------------------------------------------- program constants
\* 100 * 1024 * 1024
MaxUploadSize == 104857600
\* getattr(settings, "MAX_UPLOAD_SIZE", 2621440)
BulkMaxUploadSize == 2621440
\* FileContentPreviewView.MAX_PREVIEW_SIZE = 10 * 1024 * 1024
MaxPreviewSize == 10485760
\* original_filename = models.CharField(max_length=255)
MaxNameLen == 255
\* file_type = models.CharField(max_length=10)
MaxTypeLen == 10
\* file_ids = serializers.ListField(..., max_length=100)
MaxBulkDelete == 100

\* ---------------------------------------------------------------- contents
\* Byte contents a client may send.  SizeOf is the byte count of a content.
Contents == {"c1", "c2", "c3", "big"}

SizeOf(c) ==
    CASE c = "c1" -> 10
      [] c = "c2" -> 20
      [] c = "c3" -> 3000000
      [] c = "big" -> 104857601

\* hashlib.sha256(...).hexdigest(): 64 hex characters, here the pair of the
\* first 16 characters and the remaining 48.  Distinct contents have distinct
\* digests; c1 and c2 agree on the first 16 characters.
Sha256(c) ==
    CASE c = "c1" -> <<"p1", "t1">>
      [] c = "c2" -> <<"p1", "t2">>
      [] c = "c3" -> <<"p3", "t3">>
      [] c = "big" -> <<"p4", "t4">>

\* FileUpload.calculate_file_hash_from_file: seek(0), hash every chunk, seek(0)
calculate_file_hash_from_file(c) == Sha256(c)

\* file_hash[:16]
HashPrefix(h) == h[1]

\* ---------------------------------------------------------------- filenames
\* A filename is a sequence of tokens; "." "/" "\\" and ".." are tokens of
\* their own, every other token is a run of ordinary characters.
TokenLen(t) == IF t = ".." THEN 2 ELSE IF t \in {".", "/", "\\"} THEN 1 ELSE 3

RECURSIVE NameLen(_)
NameLen(name) ==
    IF name = <<>> THEN 0 ELSE TokenLen(Head(name)) + NameLen(Tail(name))

\* '.' in name   (".." holds a '.' too)
HasDot(name) == \E i \in 1..Len(name) : name[i] \in {".", ".."}

\* str.lower() of a token
Lower(t) == IF t = "PDF" THEN "pdf" ELSE t

\* name.split('.')[-1]: what follows the last '.'
LastDot(name) ==
    CHOOSE i \in 1..Len(name) :
        /\ name[i] \in {".", ".."}
        /\ \A j \in (i+1)..Len(name) : name[j] \notin {".", ".."}

SplitLast(name) ==
    IF HasDot(name) THEN SubSeq(name, LastDot(name) + 1, Len(name)) ELSE name

\* name.split('.')[-1].lower() if '.' in name else ''
ExtLower(name) ==
    IF HasDot(name)
    THEN [i \in 1..Len(SplitLast(name)) |-> Lower(SplitLast(name)[i])]
    ELSE <<>>

\* filename.split('.')[-1] if '.' in filename else ''
ExtRaw(name) == IF HasDot(name) THEN SplitLast(name) ELSE <<>>

\* allowed_extensions of validate_file and of validate_file_type
AllowedExtensions ==
    { <<e>> : e \in {"pdf", "doc", "docx", "txt", "jpg", "jpeg", "png", "gif",
                     "mp4", "avi", "mov", "zip", "rar", "csv", "xlsx", "xls"} }

\* dangerous_extensions of validate_file
DangerousExtensions ==
    { <<e>> : e \in {"exe", "bat", "cmd", "com", "pif", "scr", "vbs", "js"} }

\* allowed_file_types of BulkFileUploadSerializer.validate_files
BulkAllowedTypes == {"image/jpeg", "image/png", "application/pdf"}

\* ------------------------------------------------------------ client inputs
\* The files a client submits: name, bytes and declared content type.
PdfB == [name |-> <<"b", ".", "pdf">>, content |-> "c2", content_type |-> "application/pdf"]
PdfA == [name |-> <<"a", ".", "pdf">>, content |-> "c1", content_type |-> "application/pdf"]
TxtC == [name |-> <<"c", ".", "txt">>, content |-> "c3", content_type |-> "text/plain"]
PngB == [name |-> <<"b", ".", "png">>, content |-> "c2", content_type |-> "image/png"]

UploadFiles == {PdfA, PngB, TxtC}

\* What the single upload endpoint receives: the file part and the
\* original_filename form field.
UploadInputs ==
    { [file |-> f, original_filename |-> f.name] : f \in UploadFiles }
    \cup { [file |-> PdfA, original_filename |-> <<"..", "/", "e", ".", "pdf">>] }

\* ------------------------------------------------------------------- state
VARIABLES
    records,    \* the FileUpload table: a set of rows
    nextId,     \* the id sequence of the table
    now,        \* the clock
    blobs,      \* the content store: a set of [path, content]
    pageCache,  \* cache_page's entries of the list endpoint, by request URL
    version,    \* the cache key user_<id>_file_list_version, 0 when absent
    req,        \* the single uploads in flight, one per request slot
    bd,         \* the bulk delete in flight
    task,       \* the runs of process_bulk_upload, one per task worker
    response,   \* the response (or task outcome) of the step just taken
    stream      \* a file object under calculate_file_hash_from_file

vars == <<records, nextId, now, blobs, pageCache, version, req, bd, task, response,
          stream>>

\* ------------------------------------------------------------ file objects
\* A file object: its bytes and its read position; digests are the results
\* of the calls of calculate_file_hash_from_file so far, stored the bytes the
\* storage wrote (<<>>: nothing written, <<bs>>: the bytes bs), last the
\* operation applied last; from keeps, for the properties, the positions the
\* calls found the file object at.
Bytes == {0, 1}
ByteSeqs == UNION { [1..n -> Bytes] : n \in 0..MaxLen }

\* File.DEFAULT_CHUNK_SIZE, scaled to the files of the model
ChunkSize == 2

ClosedStream == [bytes |-> <<>>, pos |-> 0, digests |-> <<>>, stored |-> <<>>,
                 last |-> "none", from |-> <<>>]

\* The file objects a caller hands over: any bytes, read up to any position.
StreamInputs ==
    { [ClosedStream EXCEPT !.bytes = bs, !.pos = p] :
        bs \in ByteSeqs, p \in 0..MaxLen } \ {ClosedStream}

\* file_obj.seek(p): a position past the end is kept, reads there are empty
Seek(f, p) == [f EXCEPT !.pos = p]

\* file_obj.read(n): the bytes from the position on, at most n of them
ReadData(f, n) ==
    IF f.pos >= Len(f.bytes) THEN <<>>
    ELSE SubSeq(f.bytes, f.pos + 1,
                IF f.pos + n < Len(f.bytes) THEN f.pos + n ELSE Len(f.bytes))

\* hashlib.sha256(): the state of a new hasher
NewHasher == 0

\* hasher.update(chunk): the bytes are folded into the state one by one (a
\* fold that keeps byte sequences of the model apart, as SHA-256 does)
RECURSIVE HasherUpdate(_, _)
HasherUpdate(h, chunk) ==
    IF chunk = <<>> THEN h
    ELSE HasherUpdate(3 * h + Head(chunk) + 1, Tail(chunk))

\* hasher.hexdigest()
HexDigest(h) == <<"sha256", h>>

\* for chunk in file_obj.chunks(): hasher.update(chunk) -- reads from the
\* position the file object is at until a read is empty; gives the hasher
\* state and the file object after the loop.
RECURSIVE HashChunks(_, _)
HashChunks(f, h) ==
    LET data == ReadData(f, ChunkSize)
    IN IF data = <<>> THEN [hasher |-> h, f |-> f]
       ELSE HashChunks(Seek(f, f.pos + Len(data)), HasherUpdate(h, data))

\* The hash computed from wherever the file object stands, and the file
\* object left where the reading ended.
HashWithoutSeek(f) ==
    LET r == HashChunks(f, NewHasher)
    IN [digest |-> HexDigest(r.hasher), f |-> r.f]

\* FileUpload.calculate_file_hash_from_file on a file object: seek(0), the
\* chunks into the hasher, seek(0), hexdigest.
HashStream(f) ==
    LET r == HashChunks(Seek(f, 0), NewHasher)
    IN [digest |-> HexDigest(r.hasher), f |-> Seek(r.f, 0)]

\* Storage._save: the chunks of the content are written one after the
\* other, from the position the content is at.
RECURSIVE WriteChunks(_, _)
WriteChunks(f, out) ==
    LET data == ReadData(f, ChunkSize)
    IN IF data = <<>> THEN [out |-> out, f |-> f]
       ELSE WriteChunks(Seek(f, f.pos + Len(data)), out \o data)

\* Null values, one per type.
NoId == 0
NoTime == 0
NoUser == 0
NoPath == <<>>
NoName == <<>>
NoFile == [name |-> <<>>, content |-> "", content_type |-> ""]

IdleReq ==
    [pc |-> "idle", user |-> NoUser, file |-> NoFile, original_filename |-> NoName,
     path |-> NoPath, raced |-> FALSE]

IdleBd == [pc |-> "idle", user |-> NoUser, ids |-> {}]

IdleTask ==
    [pc |-> "idle", user |-> NoUser, files |-> <<>>, successful_uploads |-> 0,
     failed |-> 0]

\* A response: the endpoint, the HTTP status, the kind of body, and the parts
\* of the body the properties read.  raced is a history flag: the request was
\* in flight when another request committed the same content.
Resp(op, status, kind) ==
    [op |-> op, status |-> status, kind |-> kind,
     id |-> NoId, ids |-> {}, page |-> {}, failed |-> <<>>, n |-> 0,
     raced |-> FALSE]

NoResponse == Resp(None, 0, None)

Init ==
    /\ records = {}
    /\ nextId = 1
    /\ now = 0
    /\ blobs = {}
    /\ pageCache = {}
    /\ version = [u \in Users |-> 0]
    /\ req = [p \in Reqs |-> IdleReq]
    /\ bd = IdleBd
    /\ task = [k \in Tasks |-> IdleTask]
    /\ response = NoResponse
    /\ stream = ClosedStream

\* ------------------------------------------------------------ the database
RowsWithHash(rs, h) == {r \in rs : r.file_hash = h}

RowById(rs, id) == CHOOSE r \in rs : r.id = id

Ids(rs) == {r.id : r \in rs}

\* FileUpload.get_file_type: the lower-cased extension of original_filename,
\* 'unknown' when it has no '.'.
get_file_type(original_filename) ==
    IF HasDot(original_filename) THEN ExtLower(original_filename) ELSE <<"unknown">>

\* A table whose file_hash column has no unique index.
NoUniqueIndex(rs, row) == TRUE

\* The column constraints the INSERT or UPDATE of a row is checked against:
\* unique=True on file_hash, max_length of original_filename and file_type.
UniqueHashOk(rs, row) ==
    \A r \in rs : r.file_hash = row.file_hash => r.id = row.id

ColumnsOk(row) ==
    /\ NameLen(row.original_filename) <= MaxNameLen
    /\ NameLen(row.file_type) <= MaxTypeLen

InsertOk(rs, row) == UniqueHashOk(rs, row) /\ ColumnsOk(row)

\* ------------------------------------------------------- the content store
\* user_directory_path: uploads/user_<id>/<file_hash[:16]>.<ext>; the fourth
\* component is the suffix get_available_name adds (0: none).
user_directory_path(uid, hash, filename) ==
    <<uid, HashPrefix(hash), ExtRaw(filename), 0>>

Paths(bs) == {b.path : b \in bs}

\* Storage.get_available_name: the name itself when it is free, otherwise the
\* name with a suffix that makes it free.
FreeAlt(bs, path) ==
    CHOOSE k \in 0..Cardinality(bs) :
        /\ <<path[1], path[2], path[3], k>> \notin Paths(bs)
        /\ \A j \in 0..(k-1) : <<path[1], path[2], path[3], j>> \in Paths(bs)

get_available_name(bs, path) == <<path[1], path[2], path[3], FreeAlt(bs, path)>>

\* FieldFile.save -> Storage.save: writes the bytes under the available name.
StorageSave(bs, path, content) ==
    bs \cup {[path |-> get_available_name(bs, path), content |-> content]}

BlobAt(bs, path) == CHOOSE b \in bs : b.path = path

\* ------------------------------------------------------------- FileUpload
\* FileUpload.save of a new instance, up to the INSERT: file_type from the
\* original filename, hash and size from the file (file_hash is empty).
\* mime_type stays '' (a FieldFile has no content_type) and is left out.
NewRow(id, uid, f, original_filename, path, t) ==
    [id |-> id, uploaded_by |-> uid, file |-> path,
     original_filename |-> original_filename,
     file_hash |-> calculate_file_hash_from_file(f.content),
     file_size |-> SizeOf(f.content),
     file_type |-> get_file_type(original_filename),
     upload_date |-> t, last_accessed |-> NoTime,
     view_count |-> 0, description |-> ""]

\* ---------------------------------------------------------- serializers
\* '..' in value or '/' in value or '\\' in value
HasTraversal(name) ==
    \/ \E i \in 1..Len(name) : name[i] \in {"..", "/", "\\"}
    \/ \E i \in 1..(Len(name) - 1) : name[i] = "." /\ name[i+1] = "."

\* FileUploadSerializer.validate_original_filename
validate_original_filename(value) ==
    /\ value # <<>>
    /\ ~HasTraversal(value)
    /\ NameLen(value) <= MaxNameLen

\* FileUploadSerializer.validate_file, after the model field's validators
\* validate_file_size and validate_file_type
validate_file(f) ==
    /\ SizeOf(f.content) <= MaxUploadSize
    /\ ExtLower(f.name) \in AllowedExtensions
    /\ ExtLower(f.name) \notin DangerousExtensions

\* FileUploadSerializer.is_valid
FileUploadSerializerValid(f, original_filename) ==
    validate_file(f) /\ validate_original_filename(original_filename)

\* ----------------------------------------------------------------- workers
InFlight(p) == req[p].pc # "idle"

Busy ==
    Cardinality({p \in Reqs : InFlight(p)})
    + (IF bd.pc = "idle" THEN 0 ELSE 1)
    + Cardinality({k \in Tasks : task[k].pc # "idle"})

\* A request or a task starts when a worker is free.
WorkerFree == Busy < MaxWorkers

\* ------------------------------------------------ single upload (POST upload/)
\* The 201 answer: serializer.data plus 'message'.
CreatedResponse(row) == [Resp("upload", 201, "created") EXCEPT !.id = row.id]

\* FileUploadView.create, except Exception: every exception of the inherited
\* create (ValidationError of is_valid, IntegrityError of save, ...) becomes
\* {'error': 'File upload failed. Please try again.'} with status 500.
UploadFailedResponse == Resp("upload", 500, "generic")

\* FileUploadView.create up to serializer.is_valid(raise_exception=True)
UploadBegin(p, u, inp) ==
    /\ req[p].pc = "idle"
    /\ WorkerFree
    /\ IF FileUploadSerializerValid(inp.file, inp.original_filename)
       THEN /\ req' = [req EXCEPT ![p] =
                  [IdleReq EXCEPT !.pc = "validated", !.user = u,
                                  !.file = inp.file,
                                  !.original_filename = inp.original_filename]]
            /\ response' = NoResponse
       ELSE /\ req' = req
            /\ response' = UploadFailedResponse
    /\ UNCHANGED <<records, nextId, now, blobs, pageCache, version, bd, task, stream>>

\* serializer.save -> FileUpload.save -> FileField.pre_save: the hash is
\* computed and the bytes are written to the store before the INSERT runs.
UploadStore(p) ==
    /\ req[p].pc = "validated"
    /\ Cardinality(blobs) < MaxBlobs
    /\ LET h == calculate_file_hash_from_file(req[p].file.content)
           path == user_directory_path(req[p].user, h, req[p].file.name)
       IN /\ blobs' = StorageSave(blobs, path, req[p].file.content)
          /\ req' = [req EXCEPT ![p].pc = "stored",
                                ![p].path = get_available_name(blobs, path)]
    /\ response' = NoResponse
    /\ UNCHANGED <<records, nextId, now, pageCache, version, bd, task, stream>>

\* The other uploads in flight learn nothing of a commit; raced records, for
\* the properties, that another upload committed the same content meanwhile.
MarkRaced(rq, p, hash) ==
    [q \in Reqs |->
        IF q # p /\ rq[q].pc # "idle"
           /\ calculate_file_hash_from_file(rq[q].file.content) = hash
        THEN [rq[q] EXCEPT !.raced = TRUE]
        ELSE rq[q]]

\* The INSERT of FileUpload.save and the answer of FileUploadView.create.
UploadInsert(p) ==
    /\ req[p].pc = "stored"
    /\ LET row == NewRow(nextId, req[p].user, req[p].file,
                         req[p].original_filename, req[p].path, now + 1)
       IN IF InsertOk(records, row)
          THEN /\ nextId <= MaxRecords
               /\ records' = records \cup {row}
               /\ nextId' = nextId + 1
               /\ now' = now + 1
               /\ req' = MarkRaced([req EXCEPT ![p] = IdleReq], p, row.file_hash)
               /\ response' = CreatedResponse(row)
          ELSE /\ req' = [req EXCEPT ![p] = IdleReq]
               /\ response' = [UploadFailedResponse EXCEPT !.raced = req[p].raced]
               /\ UNCHANGED <<records, nextId, now>>
    /\ UNCHANGED <<blobs, pageCache, version, bd, task, stream>>

\* ------------------------------------------- bulk upload (POST bulk-upload/)
\* The batches a client submits.
Batches == UNION { [1..k -> UploadFiles] : k \in 0..MaxBatch }

\* BulkFileUploadSerializer.validate_files
validate_files(files) ==
    /\ files # <<>>
    /\ \A i \in 1..Len(files) :
          /\ SizeOf(files[i].content) <= BulkMaxUploadSize
          /\ files[i].content_type \in BulkAllowedTypes

\* The loop of BulkFileUploadView.create inside transaction.atomic(): one
\* FileUpload.objects.create per file; the first exception stops the loop with
\* that file alone in failed_uploads.
RECURSIVE BulkCreateLoop(_, _, _, _, _, _)
BulkCreateLoop(files, uid, rs, bs, id, t) ==
    IF files = <<>>
    THEN [ok |-> TRUE, records |-> rs, blobs |-> bs, nextId |-> id, now |-> t,
          failed_uploads |-> <<>>]
    ELSE LET f == Head(files)
             h == calculate_file_hash_from_file(f.content)
             path == user_directory_path(uid, h, f.name)
             row == NewRow(id, uid, f, f.name, get_available_name(bs, path), t + 1)
         IN IF InsertOk(rs, row)
            THEN BulkCreateLoop(Tail(files), uid, rs \cup {row},
                                StorageSave(bs, path, f.content), id + 1, t + 1)
            ELSE [ok |-> FALSE, records |-> rs, blobs |-> StorageSave(bs, path, f.content),
                  nextId |-> id, now |-> t, failed_uploads |-> <<f.name>>]

\* A block that is not a transaction: every INSERT stays as it was made.
Autocommit(before, result) == result.records

\* transaction.atomic(): the rows of the block are committed together when it
\* ends normally and rolled back when an exception leaves it.
TransactionAtomic(before, result) ==
    IF result.ok THEN result.records ELSE before

\* BulkFileUploadView.create
BulkUpload(u, files) ==
    /\ WorkerFree
    /\ IF ~validate_files(files)
       THEN /\ response' = Resp("bulk_upload", 400, "validation")
            /\ UNCHANGED <<records, nextId, now, blobs>>
       ELSE LET result == BulkCreateLoop(files, u, records, blobs, nextId, now)
            IN /\ result.nextId <= MaxRecords + 1
               /\ Cardinality(result.blobs) <= MaxBlobs
               /\ records' = TransactionAtomic(records, result)
               /\ blobs' = result.blobs
               /\ nextId' = IF result.ok THEN result.nextId ELSE nextId
               /\ now' = IF result.ok THEN result.now ELSE now
               /\ response' =
                    IF result.ok
                    THEN [Resp("bulk_upload", 201, "created") EXCEPT
                              !.ids = Ids(result.records) \ Ids(records)]
                    ELSE [Resp("bulk_upload", 400, "rolled_back") EXCEPT
                              !.failed = result.failed_uploads]
    /\ UNCHANGED <<pageCache, version, req, bd, task, stream>>

\* ------------------------------------------------- detail (<int:pk>/)
\* The ids a client may ask for: every id the sequence can hand out.
AskIds == 1..(MaxRecords + 1)

\* get_queryset of FileDetailView and FileDownloadView, and the lookups of
\* the preview and bulk endpoints: FileUpload.objects.filter(uploaded_by=user)
OwnedBy(rs, u) == {r \in rs : r.uploaded_by = u}

\* get_object / get_object_or_404 on the owner's queryset
Found(rs, u, id) == \E r \in OwnedBy(rs, u) : r.id = id

\* FileUpload.mark_accessed: last_accessed = timezone.now(), saved alone
mark_accessed(rs, id, t) ==
    {IF r.id = id THEN [r EXCEPT !.last_accessed = t] ELSE r : r \in rs}

\* FileDetailView.retrieve
Retrieve(u, id) ==
    /\ WorkerFree
    /\ IF Found(records, u, id)
       THEN /\ records' = mark_accessed(records, id, now)
            /\ response' = [Resp("retrieve", 200, "detail") EXCEPT !.id = id]
       ELSE /\ records' = records
            /\ response' = Resp("retrieve", 404, "not_found")
    /\ UNCHANGED <<nextId, now, blobs, pageCache, version, req, bd, task, stream>>

\* The bodies of PATCH requests: the fields a client sends ("" and <<>>: the
\* field is not sent).
DescriptionPatch == [description |-> "d", file_hash |-> <<>>]
HashPatch == [description |-> "", file_hash |-> Sha256("c2")]

\* FileDetailSerializer.is_valid on a PATCH: file_hash is a writable unique
\* field, so it carries a UniqueValidator that leaves the instance out.
FileDetailSerializerValid(rs, id, patch) ==
    patch.file_hash # <<>> =>
        \A r \in rs : r.id # id => r.file_hash # patch.file_hash

\* serializer.save -> FileUpload.save of an existing row: the sent fields are
\* set and file_type is derived again (last_modified, auto_now, is not kept
\* in the rows of the model).
UpdatedRow(row, patch) ==
    [row EXCEPT
        !.description = IF patch.description # "" THEN patch.description ELSE @,
        !.file_hash = IF patch.file_hash # <<>> THEN patch.file_hash ELSE @,
        !.file_type = get_file_type(row.original_filename)]

\* FileDetailView.update: any exception of the inherited update, the Http404
\* of get_object included, is answered 500 {'error': 'File update failed.'}.
Update(u, id, patch) ==
    /\ WorkerFree
    /\ IF /\ Found(records, u, id)
          /\ FileDetailSerializerValid(records, id, patch)
          /\ InsertOk(records, UpdatedRow(RowById(records, id), patch))
       THEN /\ records' = (records \ {RowById(records, id)})
                          \cup {UpdatedRow(RowById(records, id), patch)}
            /\ response' = [Resp("update", 200, "detail") EXCEPT !.id = id]
       ELSE /\ records' = records
            /\ response' = Resp("update", 500, "generic")
    /\ UNCHANGED <<nextId, now, blobs, pageCache, version, req, bd, task, stream>>

\* Model.delete / QuerySet.delete: the rows go; no storage call is made, the
\* bytes under row.file stay in the content store.
DeleteRows(rs, gone) == rs \ gone

\* FileDetailView.destroy
Destroy(u, id) ==
    /\ WorkerFree
    /\ IF Found(records, u, id)
       THEN /\ records' = DeleteRows(records, {RowById(records, id)})
            /\ response' = [Resp("destroy", 204, "deleted") EXCEPT !.id = id]
       ELSE /\ records' = records
            /\ response' = Resp("destroy", 404, "not_found")
    /\ UNCHANGED <<nextId, now, blobs, pageCache, version, req, bd, task, stream>>

\* ------------------------------------------------ download (<int:pk>/download/)
\* FileDownloadView.retrieve: get_object, mark_accessed, then file.read();
\* any exception, a missing blob included, is answered Http404.
Download(u, id) ==
    /\ WorkerFree
    /\ IF Found(records, u, id)
       THEN /\ records' = mark_accessed(records, id, now)
            /\ response' =
                 IF RowById(records, id).file \in Paths(blobs)
                 THEN [Resp("download", 200, "content") EXCEPT !.id = id]
                 ELSE Resp("download", 404, "not_found")
       ELSE /\ records' = records
            /\ response' = Resp("download", 404, "not_found")
    /\ UNCHANGED <<nextId, now, blobs, pageCache, version, req, bd, task, stream>>

\* ------------------------------------- preview (<int:pk>/content-preview/)
\* PREVIEWABLE_*_EXTENSIONS; mime_type is '' in every row, so the extension
\* decides.
PreviewableExtensions ==
    { <<e>> : e \in {"jpg", "jpeg", "png", "gif", "bmp", "svg", "webp", "pdf",
                     "txt", "md", "csv", "log", "json", "xml", "html", "css",
                     "js", "py", "java", "cpp", "c", "h"} }

\* A preview that opens the file without looking for it first: the open
\* fails and the handler's except Exception answers 500.
PreviewWithoutDiskCheck(rs, bs, u, id) ==
    IF ~Found(rs, u, id) THEN 404
    ELSE IF RowById(rs, id).file_size > MaxPreviewSize THEN 413
    ELSE IF ExtLower(RowById(rs, id).original_filename) \notin PreviewableExtensions
         THEN 415
    ELSE IF RowById(rs, id).file \notin Paths(bs) THEN 500
    ELSE 200

\* FileContentPreviewView.get
PreviewStatus(rs, bs, u, id) ==
    IF ~Found(rs, u, id) THEN 404
    ELSE IF RowById(rs, id).file \notin Paths(bs) THEN 404
    ELSE IF RowById(rs, id).file_size > MaxPreviewSize THEN 413
    ELSE IF ExtLower(RowById(rs, id).original_filename) \notin PreviewableExtensions
         THEN 415
    ELSE 200

Preview(u, id) ==
    /\ WorkerFree
    /\ response' =
         IF PreviewStatus(records, blobs, u, id) = 200
         THEN [Resp("preview", 200, "content") EXCEPT !.id = id]
         ELSE IF PreviewStatus(records, blobs, u, id) = 404
              THEN IF Found(records, u, id)
                   THEN Resp("preview", 404, "not_on_disk")
                   ELSE Resp("preview", 404, "not_found")
              ELSE Resp("preview", PreviewStatus(records, blobs, u, id), "refused")
    /\ UNCHANGED <<records, nextId, now, blobs, pageCache, version, req, bd, task, stream>>

\* The bytes under a path are gone from the disk (the media volume was
\* cleaned or replaced); the handlers below look for that.
BlobLost ==
    /\ \E b \in blobs : blobs' = blobs \ {b}
    /\ response' = NoResponse
    /\ UNCHANGED <<records, nextId, now, pageCache, version, req, bd, task, stream>>

\* ------------------------------------------- bulk delete (POST bulk-delete/)
\* BulkDeleteSerializer.validate_confirm
validate_confirm(confirm) == confirm

\* A lookup of the ids that leaves the requester out.
AnyOwnerIds(rs, u, ids) == ids \subseteq Ids(rs)

\* BulkDeleteSerializer.validate_file_ids: every id is a row of the requester
validate_file_ids(rs, u, ids) == ids \subseteq Ids(OwnedBy(rs, u))

\* BulkDeleteSerializer.is_valid: file_ids holds 1 to 100 ids
BulkDeleteSerializerValid(rs, u, ids, confirm) ==
    /\ Cardinality(ids) >= 1
    /\ Cardinality(ids) <= MaxBulkDelete
    /\ validate_confirm(confirm)
    /\ validate_file_ids(rs, u, ids)

\* bulk_delete_files up to serializer.is_valid()
BulkDeleteBegin(u, ids, confirm) ==
    /\ bd.pc = "idle"
    /\ WorkerFree
    /\ IF BulkDeleteSerializerValid(records, u, ids, confirm)
       THEN /\ bd' = [pc |-> "validated", user |-> u, ids |-> ids]
            /\ response' = NoResponse
       ELSE /\ bd' = bd
            /\ response' = Resp("bulk_delete", 400, "validation")
    /\ UNCHANGED <<records, nextId, now, blobs, pageCache, version, req, task, stream>>

\* files_to_delete of bulk_delete_files
files_to_delete(rs, u, ids) == {r \in OwnedBy(rs, u) : r.id \in ids}

\* bulk_delete_files, the transaction: files_to_delete.delete()
BulkDeleteCommit ==
    /\ bd.pc = "validated"
    /\ records' = DeleteRows(records, files_to_delete(records, bd.user, bd.ids))
    /\ response' = [Resp("bulk_delete", 200, "deleted") EXCEPT
                       !.ids = Ids(files_to_delete(records, bd.user, bd.ids)),
                       !.n = Cardinality(files_to_delete(records, bd.user, bd.ids))]
    /\ bd' = IdleBd
    /\ UNCHANGED <<nextId, now, blobs, pageCache, version, req, task, stream>>

\* ------------------------------------ duplicate cleanup (POST duplicates/)
\* duplicate_groups / actual_duplicates: the requester's rows by file_hash,
\* the groups of more than one row.
DuplicateHashes(rs, u) ==
    {h \in {r.file_hash : r \in OwnedBy(rs, u)} :
        Cardinality(RowsWithHash(OwnedBy(rs, u), h)) > 1}

\* files.sort(key=upload_date); files[0]: a row of the group no other row
\* of which was uploaded earlier
Original(group) ==
    CHOOSE r \in group : \A o \in group : r.upload_date <= o.upload_date

\* files[1:] of every group
DuplicatesToDelete(rs, u) ==
    UNION { RowsWithHash(OwnedBy(rs, u), h) \ {Original(RowsWithHash(OwnedBy(rs, u), h))} :
            h \in DuplicateHashes(rs, u) }

RECURSIVE SumSizes(_)
SumSizes(rows) ==
    IF rows = {} THEN 0
    ELSE LET r == CHOOSE x \in rows : TRUE
         IN r.file_size + SumSizes(rows \ {r})

\* duplicate_files_cleanup.  With cleanup requested the rows are deleted in
\* their transaction, and building the answer then raises AttributeError
\* (FileListView has no _format_file_size), which the handler answers 500.
Cleanup(u, cleanup) ==
    /\ WorkerFree
    /\ IF DuplicateHashes(records, u) = {}
       THEN /\ records' = records
            /\ response' = Resp("cleanup", 200, "no_duplicates")
       ELSE IF cleanup
            THEN /\ records' = DeleteRows(records, DuplicatesToDelete(records, u))
                 /\ response' = Resp("cleanup", 500, "generic")
            ELSE /\ records' = records
                 /\ response' = [Resp("cleanup", 200, "report") EXCEPT
                                    !.ids = Ids(DuplicatesToDelete(records, u)),
                                    !.n = SumSizes(DuplicatesToDelete(records, u))]
    /\ UNCHANGED <<nextId, now, blobs, pageCache, version, req, bd, task, stream>>

\* ------------------------------------------------------- list (GET files/)
\* The query strings asked: no filter, and file_type=pdf.  A parameter that
\* is not sent is the empty set.
Queries ==
    { [file_type |-> {}, min_size |-> {}, max_size |-> {}],
      [file_type |-> {<<"pdf">>}, min_size |-> {}, max_size |-> {}] }

\* Query strings with a size range: min_size=1000&max_size=500, and
\* min_size=5&max_size=15.
SizeQueries ==
    { [file_type |-> {}, min_size |-> {1000}, max_size |-> {500}],
      [file_type |-> {}, min_size |-> {5}, max_size |-> {15}] }

\* FileListView.get_queryset: the requester's rows, filtered by file_type,
\* file_size__gte and file_size__lte
ListQueryset(rs, u, q) ==
    {r \in OwnedBy(rs, u) :
        /\ q.file_type # {} => r.file_type \in q.file_type
        /\ \A m \in q.min_size : r.file_size >= m
        /\ \A m \in q.max_size : r.file_size <= m}

\* FileListSerializer
ListItem(r) ==
    [id |-> r.id, original_filename |-> r.original_filename,
     file_size |-> r.file_size, file_type |-> r.file_type,
     upload_date |-> r.upload_date, uploaded_by |-> r.uploaded_by,
     last_accessed |-> r.last_accessed]

\* self.list: one page holds every row of the model (page_size is 10)
ListPage(rs, u, q) == {ListItem(r) : r \in ListQueryset(rs, u, q)}

\* cache_page's key: the URL with its query string; nothing of the requester
CacheKey(u, q) == q

CacheHit(pc, key) == \E e \in pc : e.key = key

CacheGet(pc, key) == CHOOSE e \in pc : e.key = key

\* FileListView.get under cache_page(60 * 5): a stored page is answered as it
\* is, otherwise the page is computed and stored (by: who asked, for the
\* properties).
List(u, q) ==
    /\ WorkerFree
    /\ IF CacheHit(pageCache, CacheKey(u, q))
       THEN /\ pageCache' = pageCache
            /\ response' = [Resp("list", 200, "cached") EXCEPT
                               !.page = CacheGet(pageCache, CacheKey(u, q)).page]
       ELSE /\ pageCache' = pageCache \cup
                   {[key |-> CacheKey(u, q), page |-> ListPage(records, u, q),
                     by |-> u]}
            /\ response' = [Resp("list", 200, "computed") EXCEPT
                               !.page = ListPage(records, u, q)]
    /\ UNCHANGED <<records, nextId, now, blobs, version, req, bd, task, stream>>

\* The five minutes of a stored page are over.
CacheExpire ==
    /\ \E e \in pageCache : pageCache' = pageCache \ {e}
    /\ response' = NoResponse
    /\ UNCHANGED <<records, nextId, now, blobs, version, req, bd, task, stream>>

\* ------------------------------- background bulk upload (process_bulk_upload)
\* The ids the task is called with: the users and an id of no user.
TaskUsers == Users \cup {3}

\* process_bulk_upload up to the loop: User.objects.get(id=user_id)
TaskStart(k, u, files) ==
    /\ task[k].pc = "idle"
    /\ WorkerFree
    /\ IF u \in Users
       THEN /\ task' = [task EXCEPT ![k] =
                   [IdleTask EXCEPT !.pc = "running", !.user = u, !.files = files]]
            /\ response' = NoResponse
       ELSE /\ task' = task
            /\ response' = Resp("process_bulk_upload", 0, "no_user")
    /\ UNCHANGED <<records, nextId, now, blobs, pageCache, version, req, bd, stream>>

\* One pass of the loop: the serializer validates the ContentFile and saves
\* it (the bytes, then the INSERT); an invalid file, an IntegrityError and any
\* other exception are logged and the loop goes on.  failed counts them for
\* the properties; the task keeps no such count.
TaskFile(k) ==
    /\ task[k].pc = "running"
    /\ task[k].files # <<>>
    /\ LET f == Head(task[k].files)
           h == calculate_file_hash_from_file(f.content)
           path == user_directory_path(task[k].user, h, f.name)
           row == NewRow(nextId, task[k].user, f, f.name,
                         get_available_name(blobs, path), now + 1)
       IN IF ~FileUploadSerializerValid(f, f.name)
          THEN /\ task' = [task EXCEPT ![k].files = Tail(@), ![k].failed = @ + 1]
               /\ UNCHANGED <<records, nextId, now, blobs>>
          ELSE /\ Cardinality(blobs) < MaxBlobs
               /\ blobs' = StorageSave(blobs, path, f.content)
               /\ IF InsertOk(records, row)
                  THEN /\ nextId <= MaxRecords
                       /\ records' = records \cup {row}
                       /\ nextId' = nextId + 1
                       /\ now' = now + 1
                       /\ task' = [task EXCEPT ![k].files = Tail(@),
                                               ![k].successful_uploads = @ + 1]
                  ELSE /\ task' = [task EXCEPT ![k].files = Tail(@),
                                               ![k].failed = @ + 1]
                       /\ UNCHANGED <<records, nextId, now>>
    /\ response' = NoResponse
    /\ UNCHANGED <<pageCache, version, req, bd, stream>>

\* cache.incr raises ValueError when the key is not in the cache (0: no key)
KeyMissing(ver, u) == ver[u] = 0

\* cache.incr(version_key), one atomic command of the cache
CacheIncr(ver, u) == [ver EXCEPT ![u] = @ + 1]

\* cache.set(version_key, 2, timeout=None)
CacheSet(ver, u) == [ver EXCEPT ![u] = 2]

\* utils.invalidate_user_file_cache when nothing runs between its commands:
\* cache.incr of the version key, set to 2 when the key is missing; the
\* file_types key, which nothing sets, is deleted.
invalidate_user_file_cache(ver, u) ==
    IF KeyMissing(ver, u) THEN CacheSet(ver, u) ELSE CacheIncr(ver, u)

\* A batch none of whose files was saved invalidates as well.
AlwaysInvalidate(n) == TRUE

\* if successful_uploads > 0
ShouldInvalidate(n) == n > 0

\* The end of process_bulk_upload: when a file was saved, the cache.incr of
\* invalidate_user_file_cache; a missing key leaves the cache.set to a later
\* step.  The task returns None.
TaskFinish(k) ==
    /\ task[k].pc = "running"
    /\ task[k].files = <<>>
    /\ IF ShouldInvalidate(task[k].successful_uploads)
       THEN IF KeyMissing(version, task[k].user)
            THEN /\ version' = version
                 /\ task' = [task EXCEPT ![k].pc = "set_version"]
                 /\ response' = NoResponse
            ELSE /\ version[task[k].user] < MaxVersion
                 /\ version' = CacheIncr(version, task[k].user)
                 /\ task' = [task EXCEPT ![k] = IdleTask]
                 /\ response' = Resp("process_bulk_upload", 0, None)
       ELSE /\ version' = version
            /\ task' = [task EXCEPT ![k] = IdleTask]
            /\ response' = Resp("process_bulk_upload", 0, None)
    /\ UNCHANGED <<records, nextId, now, blobs, pageCache, req, bd, stream>>

\* except ValueError: cache.set(version_key, 2, timeout=None), and the end of
\* the call.
TaskSetVersion(k) ==
    /\ task[k].pc = "set_version"
    /\ version' = CacheSet(version, task[k].user)
    /\ task' = [task EXCEPT ![k] = IdleTask]
    /\ response' = Resp("process_bulk_upload", 0, None)
    /\ UNCHANGED <<records, nextId, now, blobs, pageCache, req, bd, stream>>

\* A call of invalidate_user_file_cache(user) by a worker, up to its
\* cache.incr: the call ends there when the key exists.
InvalidateBegin(k, u) ==
    /\ task[k].pc = "idle"
    /\ WorkerFree
    /\ IF KeyMissing(version, u)
       THEN /\ version' = version
            /\ task' = [task EXCEPT ![k] =
                   [IdleTask EXCEPT !.pc = "set_version", !.user = u]]
            /\ response' = NoResponse
       ELSE /\ version[u] < MaxVersion
            /\ version' = CacheIncr(version, u)
            /\ task' = task
            /\ response' = Resp("invalidate", 0, None)
    /\ UNCHANGED <<records, nextId, now, blobs, pageCache, req, bd, stream>>

\* ------------------------------------------------------------ specification
\* Ingestion: single uploads, bulk uploads, edits and deletions.
Next ==
    \/ \E p \in MainReqs, u \in Users, inp \in UploadInputs : UploadBegin(p, u, inp)
    \/ \E p \in MainReqs : UploadStore(p)
    \/ \E p \in MainReqs : UploadInsert(p)
    \/ \E u \in Users, files \in Batches : BulkUpload(u, files)
    \/ \E u \in Users, id \in AskIds : Update(u, id, HashPatch)
    \/ \E u \in Users, id \in AskIds : Destroy(u, id)

Spec == Init /\ [][Next]_vars

\* The background task beside single uploads and deletions.
NextTask ==
    \/ \E p \in MainReqs, u \in Users, inp \in UploadInputs : UploadBegin(p, u, inp)
    \/ \E p \in MainReqs : UploadStore(p)
    \/ \E p \in MainReqs : UploadInsert(p)
    \/ \E k \in MainTasks, u \in TaskUsers, files \in Batches : TaskStart(k, u, files)
    \/ \E k \in MainTasks : TaskFile(k)
    \/ \E k \in MainTasks : TaskFinish(k)
    \/ \E k \in MainTasks : TaskSetVersion(k)
    \/ \E u \in Users, id \in AskIds : Destroy(u, id)

SpecTask == Init /\ [][NextTask]_vars

\* Reading, editing and deleting the records of two users.
AccessInputs == {inp \in UploadInputs : inp.file \in {PdfA, PngB}}

NextAccess ==
    \/ \E p \in MainReqs, u \in Users, inp \in AccessInputs : UploadBegin(p, u, inp)
    \/ \E p \in MainReqs : UploadStore(p)
    \/ \E p \in MainReqs : UploadInsert(p)
    \/ \E u \in Users, id \in AskIds : Retrieve(u, id)
    \/ \E u \in Users, id \in AskIds : Update(u, id, DescriptionPatch)
    \/ \E u \in Users, id \in AskIds : Destroy(u, id)
    \/ \E u \in Users, id \in AskIds : Download(u, id)
    \/ \E u \in Users, id \in AskIds : Preview(u, id)

SpecAccess == Init /\ [][NextAccess]_vars

\* Deleting: one record, many records, the duplicates.
NextDelete ==
    \/ \E p \in MainReqs, u \in Users, inp \in AccessInputs : UploadBegin(p, u, inp)
    \/ \E p \in MainReqs : UploadStore(p)
    \/ \E p \in MainReqs : UploadInsert(p)
    \/ \E u \in Users, id \in AskIds : Destroy(u, id)
    \/ \E u \in Users, ids \in SUBSET AskIds, confirm \in BOOLEAN :
          BulkDeleteBegin(u, ids, confirm)
    \/ BulkDeleteCommit
    \/ \E u \in Users, cleanup \in BOOLEAN : Cleanup(u, cleanup)

SpecDelete == Init /\ [][NextDelete]_vars

\* Bulk uploads beside single uploads and deletions.
NextBulk ==
    \/ \E p \in MainReqs, u \in Users, inp \in UploadInputs : UploadBegin(p, u, inp)
    \/ \E p \in MainReqs : UploadStore(p)
    \/ \E p \in MainReqs : UploadInsert(p)
    \/ \E u \in Users, files \in Batches : BulkUpload(u, files)
    \/ \E u \in Users, id \in AskIds : Destroy(u, id)

SpecBulk == Init /\ [][NextBulk]_vars

\* Files that the validations are there for: an executable and a name with
\* '..' that are declared application/pdf, and a file over 100MB.
ExeD == [name |-> <<"d", ".", "exe">>, content |-> "c2", content_type |-> "application/pdf"]
DotsE == [name |-> <<"e", "..", "pdf">>, content |-> "c1", content_type |-> "application/pdf"]
BigF == [name |-> <<"f", ".", "pdf">>, content |-> "big", content_type |-> "application/pdf"]

IntakeFiles == {PdfA, ExeD, DotsE, BigF}

IntakeInputs == { [file |-> f, original_filename |-> f.name] : f \in IntakeFiles }

IntakeBatches == UNION { [1..k -> IntakeFiles] : k \in 0..MaxBatch }

\* The three ways in: single upload, bulk upload, background task.
NextIntake ==
    \/ \E p \in MainReqs, u \in Users, inp \in IntakeInputs : UploadBegin(p, u, inp)
    \/ \E p \in MainReqs : UploadStore(p)
    \/ \E p \in MainReqs : UploadInsert(p)
    \/ \E u \in Users, files \in IntakeBatches : BulkUpload(u, files)
    \/ \E k \in MainTasks, u \in TaskUsers, files \in IntakeBatches :
          TaskStart(k, u, files)
    \/ \E k \in MainTasks : TaskFile(k)
    \/ \E k \in MainTasks : TaskFinish(k)
    \/ \E k \in MainTasks : TaskSetVersion(k)

SpecIntake == Init /\ [][NextIntake]_vars

\* Listing with a size range.
NextSearch ==
    \/ \E p \in MainReqs, u \in Users, inp \in AccessInputs : UploadBegin(p, u, inp)
    \/ \E p \in MainReqs : UploadStore(p)
    \/ \E p \in MainReqs : UploadInsert(p)
    \/ \E u \in Users, q \in SizeQueries : List(u, q)
    \/ CacheExpire
    \/ \E u \in Users, id \in AskIds : Destroy(u, id)

SpecSearch == Init /\ [][NextSearch]_vars

\* Reading the bytes of records whose bytes may be gone.
NextStore ==
    \/ \E p \in MainReqs, u \in Users, inp \in AccessInputs : UploadBegin(p, u, inp)
    \/ \E p \in MainReqs : UploadStore(p)
    \/ \E p \in MainReqs : UploadInsert(p)
    \/ BlobLost
    \/ \E u \in Users, id \in AskIds : Download(u, id)
    \/ \E u \in Users, id \in AskIds : Preview(u, id)

SpecStore == Init /\ [][NextStore]_vars

\* A caller reads or seeks in the file object before it is hashed or between
\* two calls (the validators and the parsers do).
StreamSeek(p) ==
    /\ stream.stored = <<>>
    /\ stream.last # "seek"
    /\ p # stream.pos
    /\ stream' = [Seek(stream, p) EXCEPT !.last = "seek"]
    /\ UNCHANGED <<records, nextId, now, blobs, pageCache, version, req, bd, task, response>>

\* A call of calculate_file_hash_from_file (FileUpload.save calls it once; a
\* caller may call it again).
StreamHash ==
    /\ Len(stream.digests) < 2
    /\ LET r == HashStream(stream)
       IN stream' = [r.f EXCEPT !.digests = Append(stream.digests, r.digest),
                                !.from = Append(stream.from, stream.pos),
                                !.last = "hash"]
    /\ UNCHANGED <<records, nextId, now, blobs, pageCache, version, req, bd, task, response>>

\* super().save() of FileUpload.save, after the hash: the storage writes the
\* content.
StreamStore ==
    /\ stream.last = "hash"
    /\ stream.stored = <<>>
    /\ LET w == WriteChunks(stream, <<>>)
       IN stream' = [w.f EXCEPT !.stored = <<w.out>>, !.last = "store"]
    /\ UNCHANGED <<records, nextId, now, blobs, pageCache, version, req, bd, task, response>>

InitHash ==
    /\ records = {}
    /\ nextId = 1
    /\ now = 0
    /\ blobs = {}
    /\ pageCache = {}
    /\ version = [u \in Users |-> 0]
    /\ req = [p \in Reqs |-> IdleReq]
    /\ bd = IdleBd
    /\ task = [k \in Tasks |-> IdleTask]
    /\ response = NoResponse
    /\ stream \in StreamInputs

\* calculate_file_hash_from_file on file objects of any bytes and position.
NextHash ==
    \/ \E p \in 0..MaxLen : StreamSeek(p)
    \/ StreamHash
    \/ StreamStore

SpecHash == InitHash /\ [][NextHash]_vars

\* Uploads of two contents whose hashes begin with the same 16 digits.
PathInputs == { [file |-> f, original_filename |-> f.name] : f \in {PdfA, PdfB} }

NextPaths ==
    \/ \E p \in MainReqs, u \in Users, inp \in PathInputs : UploadBegin(p, u, inp)
    \/ \E p \in MainReqs : UploadStore(p)
    \/ \E p \in MainReqs : UploadInsert(p)
    \/ \E u \in Users, id \in AskIds : Destroy(u, id)

SpecPaths == Init /\ [][NextPaths]_vars

\* Calls of invalidate_user_file_cache by two workers, beside single uploads.
NextVersion ==
    \/ \E p \in MainReqs, u \in Users, inp \in AccessInputs : UploadBegin(p, u, inp)
    \/ \E p \in MainReqs : UploadStore(p)
    \/ \E p \in MainReqs : UploadInsert(p)
    \/ \E k \in Tasks, u \in Users : InvalidateBegin(k, u)
    \/ \E k \in Tasks : TaskSetVersion(k)

SpecVersion == Init /\ [][NextVersion]_vars

\* Two single uploads at once.
NextRace ==
    \/ \E p \in Reqs, u \in Users, inp \in UploadInputs : UploadBegin(p, u, inp)
    \/ \E p \in Reqs : UploadStore(p)
    \/ \E p \in Reqs : UploadInsert(p)
    \/ \E u \in Users, id \in AskIds : Destroy(u, id)

SpecRace == Init /\ [][NextRace]_vars

\* Listing through the page cache beside uploads and deletions.
NextCache ==
    \/ \E p \in MainReqs, u \in Users, inp \in AccessInputs : UploadBegin(p, u, inp)
    \/ \E p \in MainReqs : UploadStore(p)
    \/ \E p \in MainReqs : UploadInsert(p)
    \/ \E u \in Users, q \in Queries : List(u, q)
    \/ CacheExpire
    \/ \E u \in Users, id \in AskIds : Destroy(u, id)

SpecCache == Init /\ [][NextCache]_vars

C2_RacedUploadConflict ==
    [][\A p \in Reqs :
          ( /\ UploadInsert(p)
            /\ req[p].raced
            /\ RowsWithHash(records,
                   calculate_file_hash_from_file(req[p].file.content)) # {} )
          => /\ records' = records
             /\ response'.status = 409
             /\ response'.kind = "duplicate"]_vars

\* The rows a committed batch adds: one per file, of the requester.
BatchCommitted(u, files, new) ==
    /\ Cardinality(new) = Len(files)
    /\ \A i \in 1..Len(files) :
          \E r \in new :
              /\ r.uploaded_by = u
              /\ r.original_filename = files[i].name
              /\ r.file_hash = calculate_file_hash_from_file(files[i].content)

\* A file of the batch that cannot be recorded: the batch is refused by the
\* validation, or the file's content is recorded already, or it is twice in
\* the batch.
BatchHasFailure(rs, files) ==
    \/ ~validate_files(files)
    \/ \E i \in 1..Len(files) :
          RowsWithHash(rs, calculate_file_hash_from_file(files[i].content)) # {}
    \/ \E i \in 1..Len(files), j \in 1..Len(files) :
          i # j /\ files[i].content = files[j].content

\* C3: a bulk upload is all or nothing: when a file of the batch fails no
\* file of the batch has a record afterwards, otherwise every file has one.
C3_BulkAllOrNothing ==
    [][\A u \in Users, files \in Batches :
          BulkUpload(u, files) =>
              /\ records \subseteq records'
              /\ IF BatchHasFailure(records, files)
                 THEN records' = records /\ response'.status # 201
                 ELSE /\ BatchCommitted(u, files, records' \ records)
                      /\ response'.status = 201]_vars

\* A batch was rolled back after its first file had been written.
C3_Witness ==
    /\ response.op = "bulk_upload"
    /\ response.kind = "rolled_back"
    /\ response.failed # <<>>
    /\ records = {}
    /\ Cardinality(blobs) = 2

\* C4: a list answered to the user the stored page was computed for shows
\* that user's records as they are now, whatever was uploaded or deleted
\* since.
C4_ListIsCurrent ==
    [][\A u \in Users, q \in Queries :
          ( /\ List(u, q)
            /\ CacheHit(pageCache, CacheKey(u, q))
                  => CacheGet(pageCache, CacheKey(u, q)).by = u )
          => response'.page = ListPage(records, u, q)]_vars

\* C5: a batch processed file by file, some files of which failed, ends with
\* an outcome that names the failed files.
C5_PartialReportsFailures ==
    [][\A k \in MainTasks :
          ( /\ TaskFinish(k) \/ TaskSetVersion(k)
            /\ task'[k].pc = "idle"
            /\ task[k].failed > 0 )
          => /\ response'.kind = "partial"
             /\ response'.failed # <<>>]_vars

\* C6: a single upload of a content that is recorded already creates no
\* record and is answered a structured conflict that carries the existing
\* record's id and tells the requester's own record from another user's.
C6_DuplicateUploadConflict ==
    [][\A p \in MainReqs :
          LET same == RowsWithHash(records,
                          calculate_file_hash_from_file(req[p].file.content))
          IN ( UploadInsert(p) /\ same # {} )
             => /\ records' = records
                /\ response'.status = 409
                /\ \E r \in same :
                      /\ response'.id = r.id
                      /\ response'.kind =
                            IF r.uploaded_by = req[p].user
                            THEN "duplicate_own" ELSE "duplicate_other"]_vars

\* C7: a bulk delete goes to its deletion only with confirm true and every
\* requested id a record of the requester, and leaves the records alone
\* otherwise; the deletion removes the requested records and no other.
C7_BulkDeleteGuarded ==
    [][ /\ \A u \in Users, ids \in SUBSET AskIds, confirm \in BOOLEAN :
              BulkDeleteBegin(u, ids, confirm) =>
                  /\ records' = records
                  /\ bd'.pc = "validated" =>
                        /\ confirm
                        /\ \A id \in ids :
                              \E r \in records : r.id = id /\ r.uploaded_by = u
                  /\ bd'.pc # "validated" => response'.status = 400
        /\ BulkDeleteCommit =>
              /\ records' = {r \in records : r.id \notin bd.ids}
              /\ \A r \in records \ records' : r.uploaded_by = bd.user
      ]_vars

\* A bulk delete removed a record and left another.
C7_Witness ==
    /\ response.op = "bulk_delete"
    /\ response.status = 200
    /\ response.n >= 1
    /\ records # {}
    /\ \A r \in records : r.id \notin response.ids

\* C8: a successful delete, single or bulk, removes the record and the bytes
\* stored for it.
C8_DeleteRemovesBlob ==
    [][ /\ \A u \in Users, id \in AskIds :
              ( Destroy(u, id) /\ Found(records, u, id) )
              => /\ ~Found(records', u, id)
                 /\ RowById(records, id).file \notin Paths(blobs')
        /\ BulkDeleteCommit =>
              \A r \in files_to_delete(records, bd.user, bd.ids) :
                  r \notin records' /\ r.file \notin Paths(blobs')
      ]_vars

\* A record of another user under the id asked for.
Foreign(rs, u, id) == \E r \in rs : r.id = id /\ r.uploaded_by # u

\* C10: retrieve, update, delete, download and preview of a record of another
\* user are answered not found (404) and leave the records as they are.
C10_OwnerScoped ==
    [][\A u \in Users, id \in AskIds :
          ( /\ Foreign(records, u, id)
            /\ \/ Retrieve(u, id)
               \/ Update(u, id, DescriptionPatch)
               \/ Destroy(u, id)
               \/ Download(u, id)
               \/ Preview(u, id) )
          => /\ response'.status = 404
             /\ records' = records]_vars

\* C11: a list answered to a user, computed or from the cache, holds only
\* records of that user.
C11_ListOnlyOwnRecords ==
    [][\A u \in Users, q \in Queries :
          List(u, q) => \A item \in response'.page : item.uploaded_by = u]_vars

\* The extension of the name a record's bytes are stored under, lower case.
StoredExt(r) == [i \in 1..Len(r.file[3]) |-> Lower(r.file[3][i])]

\* C12: no record, whichever way it came in, is of a file over 100MB, of an
\* extension outside the allow-list or of an extension in the deny-list.
C12_OnlyValidFilesRecorded ==
    \A r \in records :
        /\ r.file_size <= MaxUploadSize
        /\ StoredExt(r) \in AllowedExtensions
        /\ StoredExt(r) \notin DangerousExtensions

\* C13: a single upload that fails validation is answered a structured
\* validation error (400), not the generic server failure, and creates no
\* record.
C13_ValidationErrorStructured ==
    [][\A p \in MainReqs, u \in Users, inp \in UploadInputs :
          ( /\ UploadBegin(p, u, inp)
            /\ ~FileUploadSerializerValid(inp.file, inp.original_filename) )
          => /\ records' = records
             /\ response'.status = 400
             /\ response'.kind = "validation"]_vars

\* C14: no record's original_filename contains '..', '/' or '\' or is longer
\* than 255 characters, whichever way the record came in.
C14_FilenamesClean ==
    \A r \in records :
        /\ ~HasTraversal(r.original_filename)
        /\ NameLen(r.original_filename) <= MaxNameLen

\* C15: an update by the owner leaves the record's id, owner, file_hash,
\* file_size and upload_date as they were.
C15_UpdateKeepsIdentity ==
    [][\A u \in Users, id \in AskIds :
          ( Update(u, id, HashPatch) /\ Found(records, u, id) )
          => \E r \in records' :
                /\ r.id = id
                /\ r.uploaded_by = RowById(records, id).uploaded_by
                /\ r.file_hash = RowById(records, id).file_hash
                /\ r.file_size = RowById(records, id).file_size
                /\ r.upload_date = RowById(records, id).upload_date]_vars

\* C16: a successful detail retrieve or download by the owner raises the
\* record's view_count by exactly 1.
C16_ReadCountsView ==
    [][\A u \in Users, id \in AskIds :
          ( /\ Retrieve(u, id) \/ Download(u, id)
            /\ Found(records, u, id)
            /\ response'.status = 200 )
          => RowById(records', id).view_count
                = RowById(records, id).view_count + 1]_vars

\* The files of a batch that cannot be recorded: the content is recorded
\* already, or it came earlier in the batch.
FailingFiles(rs, files) ==
    {i \in 1..Len(files) :
        \/ RowsWithHash(rs, calculate_file_hash_from_file(files[i].content)) # {}
        \/ \E j \in 1..(i-1) : files[j].content = files[i].content}

\* C17: the answer of a bulk upload that was rolled back lists every file of
\* the batch that fails.
C17_RollbackListsAllFailures ==
    [][\A u \in Users, files \in Batches :
          ( BulkUpload(u, files) /\ response'.kind = "rolled_back" )
          => Len(response'.failed) = Cardinality(FailingFiles(records, files))]_vars

\* C18: a list query whose min_size is greater than its max_size is
\* rejected as invalid input (400) and no page is computed for it.
C18_SizeRangeRejected ==
    [][\A u \in Users, q \in SizeQueries :
          ( /\ List(u, q)
            /\ \E lo \in q.min_size, hi \in q.max_size : lo > hi )
          => /\ response'.status = 400
             /\ response'.kind = "validation"
             /\ pageCache' = pageCache]_vars

\* C19: download and preview of a record of the requester whose bytes are
\* not in the content store are answered 404.
C19_MissingBlobNotFound ==
    [][\A u \in Users, id \in AskIds :
          ( /\ Download(u, id) \/ Preview(u, id)
            /\ Found(records, u, id)
            /\ RowById(records, id).file \notin Paths(blobs) )
          => response'.status = 404]_vars

\* A preview of a record was answered 404 'File not found on disk'.
C19_Witness ==
    /\ response.op = "preview"
    /\ response.status = 404
    /\ response.kind = "not_on_disk"
    /\ \E r \in records : r.file \notin Paths(blobs)

\* C20: the step that answers 201 to a single or bulk upload of a user has
\* moved that user's list-cache version.
C20_UploadBumpsVersion ==
    [][ /\ \A p \in MainReqs :
              ( UploadInsert(p) /\ response'.status = 201 )
              => version'[req[p].user] # version[req[p].user]
        /\ \A u \in Users, files \in Batches :
              ( BulkUpload(u, files) /\ response'.status = 201 )
              => version'[u] # version[u]
      ]_vars

\* The version a user's list pages are under: 1 while the key is missing.
Ver(ver, u) == IF ver[u] = 0 THEN 1 ELSE ver[u]

\* C21: the version starts at 1 and every call of
\* invalidate_user_file_cache raises it by exactly 1, at the step that ends
\* the call, and at no other step; n calls leave it at 1 + n.
C21_NoInvalidationLost ==
    [][\A k \in Tasks, u \in Users :
          /\ ( InvalidateBegin(k, u) /\ task'[k].pc = "idle" )
                => Ver(version', u) = Ver(version, u) + 1
          /\ ( InvalidateBegin(k, u) /\ task'[k].pc = "set_version" )
                => Ver(version', u) = Ver(version, u)
          /\ ( TaskSetVersion(k) /\ task[k].user = u )
                => Ver(version', u) = Ver(version, u) + 1]_vars

\* C22: a user's version never goes down.
C22_VersionMonotonic ==
    [][\A u \in Users : Ver(version', u) >= Ver(version, u)]_vars

\* C23: the task leaves the cache version alone while it goes through its
\* files, and its end moves the version of its user, once, exactly when a
\* file was saved; a batch with no file saved leaves every version as it was.
C23_TaskInvalidatesOnce ==
    [][\A k \in MainTasks :
          /\ TaskFile(k) => version' = version
          /\ ( /\ TaskFinish(k) \/ TaskSetVersion(k)
               /\ task'[k].pc = "idle" )
             => /\ version'[task[k].user] # version[task[k].user]
                   <=> task[k].successful_uploads > 0
                /\ task[k].successful_uploads > 0
                   => version' = invalidate_user_file_cache(version, task[k].user)
                /\ \A o \in Users \ {task[k].user} : version'[o] = version[o]
          /\ ( TaskFinish(k) /\ task'[k].pc = "set_version" )
             => version' = version /\ task[k].successful_uploads > 0]_vars

\* A batch a file of which was saved has ended, its bytes and its row are kept, and the
\* version of its user has moved.
C23_Witness ==
    /\ response.op = "process_bulk_upload"
    /\ response.kind = None
    /\ \E u \in Users :
          /\ version[u] # 0
          /\ Cardinality(OwnedBy(records, u)) = 1
          /\ Cardinality(blobs) = 2

\* C24: an upload goes Validated, Hashed, DedupChecked, Stored, Recorded: an
\* upload refused as invalid, and an upload refused as a duplicate, has
\* written no bytes to the content store.
C24_RejectedWritesNoBlob ==
    [][\A p \in MainReqs :
          /\ ( /\ \E u \in Users, inp \in UploadInputs : UploadBegin(p, u, inp)
               /\ response'.status # 0 )
             => blobs' = blobs
          /\ ( UploadInsert(p) /\ response'.status # 201 )
             => req[p].path \notin Paths(blobs')]_vars

\* C26: an upload of content its owner already has a record of targets the
\* path of that record and leaves the set of stored bytes as it was.
C26_ReuploadKeepsBlobs ==
    [][\A p \in MainReqs :
          ( /\ UploadStore(p)
            /\ \E r \in records :
                  /\ r.uploaded_by = req[p].user
                  /\ r.file_hash = calculate_file_hash_from_file(req[p].file.content) )
          => /\ blobs' = blobs
             /\ \E r \in records : r.uploaded_by = req[p].user
                                   /\ r.file = req'[p].path]_vars

\* C28: the file_hash of every record is the digest of the bytes its file
\* points to.
C28_HashMatchesBlob ==
    \A r \in records :
        r.file \in Paths(blobs)
            => r.file_hash = calculate_file_hash_from_file(BlobAt(blobs, r.file).content)

\* C29: no user has two records of one file_hash, so the duplicate
\* cleanup, asked to delete or not, answers that there are no duplicates and
\* deletes nothing.
C29_CleanupFindsNothing ==
    [][\A u \in Users, cleanup \in BOOLEAN :
          Cleanup(u, cleanup)
             => /\ DuplicateHashes(records, u) = {}
                /\ records' = records
                /\ response'.kind = "no_duplicates"]_vars

\* The cleanup has answered a requester who has a record, with two records
\* in the table.
C29_Witness ==
    /\ response.op = "cleanup"
    /\ response.kind = "no_duplicates"
    /\ Cardinality(records) = 2
    /\ \A u \in Users : OwnedBy(records, u) # {}

\* C30: a download answered 404 because the bytes cannot be read leaves the
\* record as it was, last_accessed included.
C30_FailedDownloadKeepsRecord ==
    [][\A u \in Users, id \in AskIds :
          ( /\ Download(u, id)
            /\ Found(records, u, id)
            /\ response'.status = 404 )
          => records' = records]_vars

\* C25: two records of one owner whose hashes differ never derive the
\* same path uploads/user_<id>/<first 16 digits of the hash>.<ext>.
C25_PathsCollisionFree ==
    \A r1, r2 \in records :
        ( r1.uploaded_by = r2.uploaded_by /\ r1.file_hash # r2.file_hash )
        => user_directory_path(r1.uploaded_by, r1.file_hash, r1.original_filename)
           # user_directory_path(r2.uploaded_by, r2.file_hash, r2.original_filename)

\* The digest of a byte sequence hashed whole.
DigestOf(bs) == HexDigest(HasherUpdate(NewHasher, bs))

\* C27: every call of calculate_file_hash_from_file returns the digest of
\* all the bytes of the file object, wherever it stood before, so two calls
\* return the same digest; a call leaves the file object at its start, and
\* the bytes stored after it are all the bytes.
C27_HashIsRepeatable ==
    /\ \A i \in 1..Len(stream.digests) : stream.digests[i] = DigestOf(stream.bytes)
    /\ stream.last = "hash" => stream.pos = 0
    /\ stream.stored # <<>> => stream.stored[1] = stream.bytes

\* A file object was hashed twice, from two positions past its start, and
\* then stored.
C27_Witness ==
    /\ Len(stream.digests) = 2
    /\ stream.digests[1] = stream.digests[2]
    /\ stream.from[1] > 0
    /\ stream.from[2] > 0
    /\ stream.from[1] # stream.from[2]
    /\ Len(stream.bytes) = MaxLen
    /\ stream.stored = <<stream.bytes>>

====
